---------------------------- MODULE Spec2Model ----------------------------
(***************************************************************************)
(* Wegweiser: a Sphinx extension (extension.py) that documents the routes  *)
(* of a Pyramid application.  Every directive run starts the helper        *)
(* (extract.py) as a subprocess, reads the JSON document the helper wrote  *)
(* to its standard output and renders it as docutils nodes.                *)
(*                                                                         *)
(* Strings that the code inspects character by character (route patterns,  *)
(* prefixes) are sequences of one-character strings.  Python's None is the *)
(* value None below; a dict is the sequence of its items in insertion      *)
(* order.                                                                  *)
(***************************************************************************)
EXTENDS Integers, Sequences, FiniteSets, TLC

VARIABLES
    mapper,          \* the application's route mapper: its routes in insertion order
    call,            \* the operation that ran last, with its inputs
    stdout,          \* what the last helper process wrote to standard output
    result,          \* what the last operation returned or raised
    helperCalls,     \* helper subprocesses started so far in this build
    directivesRun,   \* directive runs so far in this build
    pyramid_routes,  \* env.pyramid_routes: docname -> set of source files
    serialno         \* env.new_serialno("route") counter

vars == <<mapper, call, stdout, result, helperCalls, directivesRun,
          pyramid_routes, serialno>>

----------------------------------------------------------------------------
(* Bounds of the model *)

\* routes of the application
MaxRoutes == 2
\* characters of a route pattern as the application registers it
MaxPatLen == 1
\* directives in the documents of one build
MaxDirectives == 2

----------------------------------------------------------------------------
(* Values *)

\* Python's None, where the other values are names or texts
None == "None"

\* Python's None, where the other values are character sequences or tuples
NoneT == <<"None">>

Chars == {"/", "a"}

\* code points, for Python's ordering of str
Ord(c) == IF c = "/" THEN 47 ELSE 97

SeqsUpTo(S, n) == UNION {[1..k -> S] : k \in 0..n}

Strings == SeqsUpTo(Chars, MaxPatLen)

\* Python truthiness of an optional str kept as a character sequence
Truthy(x) == x # NoneT /\ x # <<>>

\* str.startswith
StartsWith(s, p) == Len(p) <= Len(s) /\ SubSeq(s, 1, Len(p)) = p

\* s[n:]
SliceFrom(s, n) == SubSeq(s, n + 1, Len(s))

\* Python's s < t on str
RECURSIVE StrLess(_, _)
StrLess(s, t) ==
    IF t = <<>> THEN FALSE
    ELSE IF s = <<>> THEN TRUE
    ELSE IF Head(s) # Head(t) THEN Ord(Head(s)) < Ord(Head(t))
    ELSE StrLess(Tail(s), Tail(t))

StrLeq(s, t) == s = t \/ StrLess(s, t)

----------------------------------------------------------------------------
(* The application: view callables and routes.                              *)
(* A view callable is known by its name; None is find_view finding none.    *)

Views == {"view_wiki", "api_view", None}

\* inspect.getmodule(view).__name__, None when getmodule finds no module
ViewModule(v) ==
    CASE v = "view_wiki" -> "example.views"
      [] v = "api_view"  -> "example.api"
      [] OTHER           -> None

\* view.__doc__ of the unwrapped callable (the source of every view with a
\* source file is readable)
ViewDoc(v) ==
    CASE v = "view_wiki" -> "Redirect to the FrontPage wiki page."
      [] OTHER           -> None

\* inspect.getsourcefile of the unwrapped callable; None stands for TypeError
ViewSourceFile(v) ==
    CASE v = "view_wiki" -> "example/views.py"
      [] v = "api_view"  -> "example/api.py"
      [] OTHER           -> None

\* number of the first source line that starts with a quote, 0 when none does
ViewQuoteLine(v) ==
    CASE v = "view_wiki" -> 6
      [] OTHER           -> 0

\* view.__predicates__: the predicate objects of the view
ViewPredicateObjects(v) ==
    CASE v = "api_view" ->
            << [cls |-> "CustomPredicate", hasVal |-> FALSE, val |-> <<>>],
               [cls |-> "RequestMethodPredicate", hasVal |-> TRUE,
                val |-> <<"GET", "POST">>] >>
      [] OTHER -> <<>>

\* the view_renderer cell of the rendered_view wrapper, None without one
ViewRendererName(v) ==
    CASE v = "api_view" -> "json"
      [] OTHER          -> None

\* docstring of the module object sys.modules[name]
ModuleDoc(name) ==
    IF name = "example.views"
    THEN <<"example/views.py", 1, "Views of the example wiki.">>
    ELSE NoneT

RouteName(i) == <<"route", i>>

\* a route mapper holds its routes under distinct names, in insertion order
Mappers ==
    UNION { { [i \in 1..n |-> [name    |-> RouteName(i),
                               pattern |-> f[i].pattern,
                               view    |-> f[i].view]] :
              f \in [1..n -> [pattern : Strings, view : Views]] } :
            n \in 0..MaxRoutes }

----------------------------------------------------------------------------
(* extract.py *)

find_view(route) == route.view

get_view_predicates(view) ==
    LET objs == IF view = None THEN <<>> ELSE ViewPredicateObjects(view)
        keep == SelectSeq(objs, LAMBDA p : p.hasVal)
    IN  [i \in 1..Len(keep) |-> <<keep[i].cls, keep[i].val>>]

get_view_renderer(view) ==
    IF view = None THEN None ELSE ViewRendererName(view)

get_docstring(func) ==
    IF ViewSourceFile(func) = None THEN NoneT
    ELSE IF ViewQuoteLine(func) = 0 THEN NoneT
    ELSE IF ViewDoc(func) # None
         THEN <<ViewSourceFile(func), ViewQuoteLine(func), ViewDoc(func)>>
         ELSE NoneT

\* lines 161-163 of collect
NormalizedPattern(pattern) ==
    IF StartsWith(pattern, <<"/">>) THEN pattern ELSE <<"/">> \o pattern

\* the dictionary collect builds for one route
RouteValue(route) ==
    LET view == find_view(route)
    IN  [name       |-> route.name,
         pattern    |-> NormalizedPattern(route.pattern),
         predicates |-> get_view_predicates(view),
         module     |-> ViewModule(view),
         doc        |-> get_docstring(view),
         renderer   |-> get_view_renderer(view)]

\* sorted(routes, key=itemgetter("pattern")): a stable insertion sort
RECURSIVE InsertSorted(_, _)
InsertSorted(sorted, r) ==
    IF sorted = <<>> THEN <<r>>
    ELSE IF StrLess(r.pattern, sorted[Len(sorted)].pattern)
         THEN Append(InsertSorted(SubSeq(sorted, 1, Len(sorted) - 1), r),
                     sorted[Len(sorted)])
         ELSE Append(sorted, r)

\* collect returning the routes as the mapper yields them
Unsorted(routes) == routes

RECURSIVE SortedByPattern(_)
SortedByPattern(routes) ==
    IF routes = <<>> THEN <<>>
    ELSE InsertSorted(SortedByPattern(SubSeq(routes, 1, Len(routes) - 1)),
                      routes[Len(routes)])

Raised(exc) == [raised |-> exc, value |-> <<>>]
Returned(v) == [raised |-> None, value |-> v]

\* inspect.getmodule(view).__name__ raises AttributeError when getmodule
\* returns None, and collect ends there
collect(m) ==
    IF \E i \in 1..Len(m) : ViewModule(find_view(m[i])) = None
    THEN Raised("AttributeError")
    ELSE Returned(SortedByPattern([i \in 1..Len(m) |-> RouteValue(m[i])]))

\* position of the group keyed name in a dict kept as a sequence, 0 if absent
GroupIndex(grouped, name) ==
    IF \E i \in 1..Len(grouped) : grouped[i].key = name
    THEN CHOOSE i \in 1..Len(grouped) : grouped[i].key = name
    ELSE 0

\* the loop body putting the route at the front of its group
GroupAddFront(grouped, route) ==
    LET name == route.module
        g    == IF GroupIndex(grouped, name) = 0
                THEN Append(grouped, [key |-> name, doc |-> ModuleDoc(name),
                                      routes |-> <<>>])
                ELSE grouped
        k    == GroupIndex(g, name)
    IN  [g EXCEPT ![k].routes = <<route>> \o @]

\* one iteration of the loop of group_by_modules
GroupAdd(grouped, route) ==
    LET name == route.module
        g    == IF GroupIndex(grouped, name) = 0
                THEN Append(grouped, [key |-> name, doc |-> ModuleDoc(name),
                                      routes |-> <<>>])
                ELSE grouped
        k    == GroupIndex(g, name)
    IN  [g EXCEPT ![k].routes = Append(@, route)]

RECURSIVE group_by_modules(_)
group_by_modules(routes) ==
    IF routes = <<>> THEN <<>>
    ELSE GroupAdd(group_by_modules(SubSeq(routes, 1, Len(routes) - 1)),
                  routes[Len(routes)])

GROUP_FUNCS == {"module"}

\* main: what the helper writes to standard output, a sequence of JSON
\* documents (empty when the helper dies before json.dump), and its exit status
main(m, prefix, group) ==
    IF group # None /\ group \notin GROUP_FUNCS
    THEN [exit |-> 2, out |-> <<>>]
    ELSE LET collected == collect(m)
             routes    == collected.value
             filtered  == IF Truthy(prefix)
                          THEN SelectSeq(routes,
                                   LAMBDA r : StartsWith(r.pattern, prefix))
                          ELSE routes
             grouped   == IF group # None
                          THEN group_by_modules(filtered)
                          ELSE filtered
         IN  IF collected.raised # None
             THEN [exit |-> 1, out |-> <<>>]
             ELSE [exit |-> 0, out |-> <<grouped>>]

----------------------------------------------------------------------------
(* extension.py *)

\* Python truthiness of an optional name or text
TruthyName(x) == x # None /\ x # ""

\* the argument list get_routes hands to Popen, as main parses it:
\* a flag is passed only for a truthy value
HelperPrefixArg(prefix) == IF Truthy(prefix) THEN prefix ELSE NoneT
HelperGroupArg(group_by) == IF TruthyName(group_by) THEN group_by ELSE None

\* the helper process get_routes starts and waits for
HelperProcess(m, prefix, group_by) ==
    main(m, HelperPrefixArg(prefix), HelperGroupArg(group_by))

\* json.loads(stdout): ValueError unless stdout holds a JSON document
get_routes(m, prefix, group_by) ==
    LET p == HelperProcess(m, prefix, group_by)
    IN  IF p.out = <<>> THEN Raised("ValueError") ELSE Returned(p.out[1])

\* get_routes keeping the first result and starting no further helper
HelperCallsCached(n) == IF n = 0 THEN 1 ELSE n

\* helper processes started once one more get_routes call has run
HelperCallsAfter(n) == n + 1

\* self.options.get(key, default)
OptionsGet(options, key, default) ==
    IF key \in DOMAIN options THEN options[key] ELSE default

\* _strip_prefix cutting the whole prefix, its trailing "/" included
StripWholePrefix(options, pattern) ==
    LET prefix == IF "prefix" \in DOMAIN options THEN options["prefix"] ELSE NoneT
    IN  IF Truthy(prefix) /\ StartsWith(pattern, prefix)
        THEN SliceFrom(pattern, Len(prefix))
        ELSE pattern

_strip_prefix(options, pattern) ==
    LET prefix == OptionsGet(options, "prefix", NoneT)
    IN  IF Truthy(prefix) /\ StartsWith(pattern, prefix)
        THEN SliceFrom(pattern,
                 Len(prefix) - (IF prefix[Len(prefix)] = "/" THEN 1 ELSE 0))
        ELSE pattern

_get_request_methods(route) ==
    LET hits == SelectSeq(route.predicates,
                          LAMBDA p : p[1] = "RequestMethodPredicate")
    IN  IF hits = <<>> THEN <<>> ELSE hits[1][2]

\* the children of the request-methods paragraph
RECURSIVE MethodNodes(_)
MethodNodes(methods) ==
    IF methods = <<>> THEN <<>>
    ELSE LET n == Len(methods)
         IN  MethodNodes(SubSeq(methods, 1, n - 1))
             \o (IF n >= 2 THEN << <<"inline", ", ">> >> ELSE <<>>)
             \o << <<"literal", methods[n]>> >>

\* the nodes `route_node += ...` appends: none for [] and for None
_render_request_methods(route) ==
    LET request_methods == _get_request_methods(route)
    IN  IF request_methods # <<>>
        THEN << [tag |-> "paragraph",
                 children |-> << <<"strong", "Request methods: ">> >>
                              \o MethodNodes(request_methods)
                              \o << <<"Text", "\n">> >>] >>
        ELSE <<>>

_render_response(route) ==
    IF TruthyName(route.renderer)
    THEN << [tag |-> "paragraph",
             children |-> << <<"strong", "Response: ">>,
                             <<"inline", route.renderer>> >>] >>
    ELSE <<>>

\* the content nested_parse_with_titles adds for a docstring
_render_docstring(doc) ==
    << [tag |-> "docstring", children |-> << doc >>] >>

\* the section node _render_route returns, with serial number n
RouteNode(options, route, n) ==
    [tag      |-> "section",
     ids      |-> <<"route-", n>>,
     title    |-> _strip_prefix(options, route.pattern),
     children |-> _render_request_methods(route)
                  \o _render_response(route)
                  \o (IF route.doc # NoneT THEN _render_docstring(route.doc)
                      ELSE <<>>)]

\* _render_route adding a file for every route, docstring or not
RouteFilesAlways(route) ==
    {IF route.doc # NoneT THEN route.doc[1] ELSE route.module}

\* the source files _render_route adds to env.pyramid_routes[env.docname]
RouteFiles(route) == IF route.doc # NoneT THEN {route.doc[1]} ELSE {}

\* env after rendering: e = [serialno, files], files being the files added
\* to env.pyramid_routes[env.docname] (no key is made while none is added)
_render_route(options, route, e) ==
    [node |-> RouteNode(options, route, e.serialno),
     env  |-> [serialno |-> e.serialno + 1,
               files    |-> e.files \cup RouteFiles(route)]]

\* [self._render_route(route) for route in routes]
RECURSIVE RenderRoutes(_, _, _)
RenderRoutes(options, routes, e) ==
    IF routes = <<>> THEN [nodes |-> <<>>, env |-> e]
    ELSE LET n    == Len(routes)
             init == RenderRoutes(options, SubSeq(routes, 1, n - 1), e)
             last == _render_route(options, routes[n], init.env)
         IN  [nodes |-> Append(init.nodes, last.node), env |-> last.env]

_default_group_renderer(options, routes, e) == RenderRoutes(options, routes, e)

\* one module section of _module_group_renderer
ModuleSection(options, module, e) ==
    LET inner == RenderRoutes(options, module.routes, e)
    IN  [node |-> [tag      |-> "section",
                   ids      |-> <<"module-", module.key>>,
                   title    |-> module.key,
                   children |-> (IF module.doc # NoneT
                                 THEN _render_docstring(module.doc)
                                 ELSE <<>>) \o inner.nodes],
         env  |-> [inner.env EXCEPT !.files =
                       @ \cup (IF module.doc # NoneT THEN {module.doc[1]}
                               ELSE {})]]

RECURSIVE _module_group_renderer(_, _, _)
_module_group_renderer(options, modules, e) ==
    IF modules = <<>> THEN [nodes |-> <<>>, env |-> e]
    ELSE LET n    == Len(modules)
             init == _module_group_renderer(options,
                                            SubSeq(modules, 1, n - 1), e)
             last == ModuleSection(options, modules[n], init.env)
         IN  [nodes |-> Append(init.nodes, last.node), env |-> last.env]

\* the names PyramidRoutesDirective.group_renderer holds
GroupRenderers == {"", "module"}

RaisedWith(exc, msg) == [raised |-> exc, value |-> msg]

\* what PyramidRoutesDirective.run returns or raises, with the env it leaves
PyramidRoutesOutcome(m, options, e) ==
    LET group_by == OptionsGet(options, "groupby", "")
        prefix   == OptionsGet(options, "prefix", NoneT)
        routes   == get_routes(m, prefix, group_by)
        rendered == IF group_by = ""
                    THEN _default_group_renderer(options, routes.value, e)
                    ELSE _module_group_renderer(options, routes.value, e)
    IN  IF routes.raised # None
        THEN [ret |-> Raised(routes.raised), env |-> e]
        ELSE IF group_by \notin GroupRenderers
        THEN [ret |-> RaisedWith("DirectiveError",
                                 <<"Invalid group: ", group_by>>),
              env |-> e]
        ELSE [ret |-> Returned(rendered.nodes), env |-> rendered.env]

\* what PyramidRouteDirective.run returns or raises, with the env it leaves
PyramidRouteOutcome(m, argument, e) ==
    LET routes == get_routes(m, NoneT, None)
        named  == SelectSeq(routes.value, LAMBDA r : r.name = argument)
        one    == _render_route(<<>>, named[Len(named)], e)
    IN  IF routes.raised # None
        THEN [ret |-> Raised(routes.raised), env |-> e]
        ELSE IF named = <<>>
        THEN [ret |-> Raised("KeyError"), env |-> e]
        ELSE [ret |-> Returned(<<one.node>>), env |-> one.env]

\* env.pyramid_routes[docname].add(file) for every file of files
AddFiles(map, docname, files) ==
    IF files = {} THEN map
    ELSE [d \in DOMAIN map \cup {docname} |->
            IF d = docname
            THEN (IF d \in DOMAIN map THEN map[d] ELSE {}) \cup files
            ELSE map[d]]

----------------------------------------------------------------------------
(* The documentation build *)

DocNames == {"index"}

\* a normalized pattern is up to MaxPatLen + 1 characters long
Prefixes == SeqsUpTo(Chars, MaxPatLen + 1)

GroupBys == {"module", "package"}

\* the options a pyramidroutes directive may carry
RoutesOptions ==
    { <<>> }
    \cup { [prefix |-> p] : p \in Prefixes }
    \cup { [groupby |-> g] : g \in GroupBys }
    \cup { [prefix |-> p, groupby |-> g] : p \in Prefixes, g \in GroupBys }

RouteArguments == { RouteName(i) : i \in 1..(MaxRoutes + 1) }

NoCall == [op |-> "none", docname |-> "", options |-> <<>>, argument |-> NoneT]

\* the directives the documents of a build hold: up to MaxDirectives for
\* an application of at most one route, one for a larger application
Directives(m) == IF Len(m) <= 1 THEN MaxDirectives ELSE 1

Init ==
    /\ mapper \in Mappers
    /\ call = NoCall
    /\ stdout = <<>>
    /\ result = Returned(<<>>)
    /\ helperCalls = 0
    /\ directivesRun = 0
    /\ pyramid_routes = [attr |-> FALSE, map |-> <<>>]
    /\ serialno = 0

\* a pyramidroutes directive of document docname is run
PyramidRoutesDirective_run(docname, options) ==
    /\ directivesRun < Directives(mapper)
    /\ LET e0  == [serialno |-> serialno, files |-> {}]
           got == PyramidRoutesOutcome(mapper, options, e0)
       IN  /\ call' = [op |-> "pyramidroutes", docname |-> docname,
                       options |-> options, argument |-> NoneT]
           /\ stdout' = HelperProcess(mapper,
                                      OptionsGet(options, "prefix", NoneT),
                                      OptionsGet(options, "groupby", "")).out
           /\ result' = got.ret
           /\ helperCalls' = HelperCallsAfter(helperCalls)
           /\ directivesRun' = directivesRun + 1
           /\ pyramid_routes' =
                  [attr |-> TRUE,
                   map  |-> AddFiles(pyramid_routes.map, docname, got.env.files)]
           /\ serialno' = got.env.serialno
    /\ UNCHANGED mapper

\* a pyramidroute directive of document docname is run
PyramidRouteDirective_run(docname, argument) ==
    /\ directivesRun < Directives(mapper)
    /\ LET e0  == [serialno |-> serialno, files |-> {}]
           got == PyramidRouteOutcome(mapper, argument, e0)
       IN  /\ call' = [op |-> "pyramidroute", docname |-> docname,
                       options |-> <<>>, argument |-> argument]
           /\ stdout' = HelperProcess(mapper, NoneT, None).out
           /\ result' = got.ret
           /\ helperCalls' = HelperCallsAfter(helperCalls)
           /\ directivesRun' = directivesRun + 1
           /\ pyramid_routes' =
                  [attr |-> TRUE,
                   map  |-> AddFiles(pyramid_routes.map, docname, got.env.files)]
           /\ serialno' = got.env.serialno
    /\ UNCHANGED mapper

Next ==
    \/ \E d \in DocNames, o \in RoutesOptions : PyramidRoutesDirective_run(d, o)
    \/ \E d \in DocNames, a \in RouteArguments : PyramidRouteDirective_run(d, a)

Spec == Init /\ [][Next]_vars

----------------------------------------------------------------------------
(* _strip_prefix on its own: any options, any pattern *)

StripInit ==
    /\ mapper = <<>>
    /\ call = NoCall
    /\ stdout = <<>>
    /\ result = Returned(<<>>)
    /\ helperCalls = 0
    /\ directivesRun = 0
    /\ pyramid_routes = [attr |-> FALSE, map |-> <<>>]
    /\ serialno = 0

StripPrefixCall(options, pattern) ==
    /\ call' = [op |-> "_strip_prefix", docname |-> "",
                options |-> options, argument |-> pattern]
    /\ result' = Returned(_strip_prefix(options, pattern))
    /\ UNCHANGED <<mapper, stdout, helperCalls, directivesRun,
                   pyramid_routes, serialno>>

StripNext == \E o \in RoutesOptions, p \in Prefixes : StripPrefixCall(o, p)

StripSpec == StripInit /\ [][StripNext]_vars

----------------------------------------------------------------------------
(* Vocabulary of the properties *)

\* the last operation was a directive run
DirectiveRan == call.op \in {"pyramidroute", "pyramidroutes"}

CallGroupBy == OptionsGet(call.options, "groupby", "")
CallPrefix == OptionsGet(call.options, "prefix", NoneT)

\* the helper of the last directive run wrote a JSON document
HelperWrote == DirectiveRan /\ Len(stdout) = 1

\* ... a list of routes (no --group) / a dict of module groups (--group=module)
HelperWroteList == HelperWrote /\ CallGroupBy = ""
HelperWroteGroups == HelperWrote /\ CallGroupBy = "module"

\* s without its first n characters
Drop(s, n) == [i \in 1..(Len(s) - n) |-> s[i + n]]

BeginsWithSlash(s) == Len(s) >= 1 /\ s[1] = "/"

WithLeadingSlash(p) == IF BeginsWithSlash(p) THEN p ELSE <<"/">> \o p

\* the route of the mapper registered under a name
MapperRoute(name) == CHOOSE r \in {mapper[i] : i \in 1..Len(mapper)} : r.name = name

\* the routes the last helper emitted, as a set
EmittedRoutes ==
    IF HelperWroteList THEN {stdout[1][k] : k \in 1..Len(stdout[1])}
    ELSE IF HelperWroteGroups
    THEN UNION { {stdout[1][g].routes[k] : k \in 1..Len(stdout[1][g].routes)} :
                 g \in 1..Len(stdout[1]) }
    ELSE {}

\* the route sections among the children of a module section
RouteSections(node) == SelectSeq(node.children, LAMBDA c : c.tag = "section")

\* <<route, section node>> for every route the last directive rendered
Rendered ==
    IF ~DirectiveRan \/ result.raised # None THEN {}
    ELSE IF call.op = "pyramidroute"
    THEN { << CHOOSE r \in EmittedRoutes : r.name = call.argument,
              result.value[1] >> }
    ELSE IF CallGroupBy = ""
    THEN { <<stdout[1][k], result.value[k]>> : k \in 1..Len(stdout[1]) }
    ELSE UNION { { <<stdout[1][g].routes[k], RouteSections(result.value[g])[k]>> :
                   k \in 1..Len(stdout[1][g].routes) } :
                 g \in 1..Len(stdout[1]) }

FilesOf(map, docname) == IF docname \in DOMAIN map THEN map[docname] ELSE {}

----------------------------------------------------------------------------
C2_MissingViewDegrades ==
    (/\ call.op = "pyramidroutes"
     /\ CallGroupBy \in GroupRenderers
     /\ \E i \in 1..Len(mapper) : find_view(mapper[i]) = None)
    => /\ collect(mapper).raised = None
       /\ Len(collect(mapper).value) = Len(mapper)
       /\ Len(stdout) = 1
       /\ result.raised \in {None, "DirectiveError"}

\* a route of a view without docstring is emitted with "doc" = null
C3_EmittedNull ==
    \A r \in EmittedRoutes :
        ViewDoc(MapperRoute(r.name).view) = None => r.doc = NoneT

\* rendering raises no error, and the section of a route with a null doc
\* holds the request-methods and response paragraphs present, nothing else
C3_RenderedBare ==
    /\ (HelperWrote /\ ~(call.op = "pyramidroute" /\
                         \A r \in EmittedRoutes : r.name # call.argument))
       => result.raised = None
    /\ \A pair \in Rendered :
        pair[1].doc = NoneT =>
          LET route == pair[1]
              node  == pair[2]
          IN  /\ node.tag = "section"
              /\ call.op = "pyramidroute" => node.title = route.pattern
              /\ \A k \in 1..Len(node.children) :
                     node.children[k].tag = "paragraph"
              /\ Len(node.children) =
                     (IF \E k \in 1..Len(route.predicates) :
                            /\ route.predicates[k][1] = "RequestMethodPredicate"
                            /\ route.predicates[k][2] # <<>>
                      THEN 1 ELSE 0)
                     + (IF route.renderer \notin {None, ""} THEN 1 ELSE 0)

\* the source files of the docstrings the last directive run rendered:
\* those of the routes whose "doc" is not null, and of the module groups
DocFiles ==
    {pair[1].doc[1] : pair \in {q \in Rendered : q[1].doc # NoneT}}
    \cup (IF HelperWroteGroups /\ result.raised = None
          THEN {stdout[1][g].doc[1] :
                  g \in {h \in 1..Len(stdout[1]) : stdout[1][h].doc # NoneT}}
          ELSE {})

\* a directive run adds these files and no other; with none to add it
\* leaves env.pyramid_routes as it was
C3_StepFiles ==
    DirectiveRan' =>
      /\ FilesOf(pyramid_routes'.map, call'.docname)
           = FilesOf(pyramid_routes.map, call'.docname) \cup DocFiles'
      /\ DocFiles' = {} => pyramid_routes'.map = pyramid_routes.map

(* C3: a route whose view has no docstring is emitted with "doc" = null;   *)
(* rendering it raises no error and gives a section holding the title and  *)
(* only the request-methods and response paragraphs that are present; it   *)
(* adds no source file to env.pyramid_routes[env.docname].                 *)
C3_NoDocstringRoute ==
    [](C3_EmittedNull /\ C3_RenderedBare) /\ [][C3_StepFiles]_vars

\* a pyramidroute directive rendered a route of a view without docstring,
\* with both paragraphs, and env.pyramid_routes holds no file
C3_Witness ==
    /\ call.op = "pyramidroute"
    /\ result.raised = None
    /\ \E pair \in Rendered :
          /\ pair[1].doc = NoneT
          /\ Len(pair[2].children) = 2
    /\ pyramid_routes.map = <<>>

C5_ListOutput ==
    HelperWroteList =>
      LET out      == stdout[1]
          selected == {r \in {mapper[i] : i \in 1..Len(mapper)} :
                         Truthy(CallPrefix) =>
                           StartsWith(WithLeadingSlash(r.pattern), CallPrefix)}
      IN  /\ {out[k].name : k \in 1..Len(out)} = {r.name : r \in selected}
          /\ Len(out) = Cardinality(selected)
          /\ \A k \in 1..Len(out) :
                 out[k].pattern = WithLeadingSlash(MapperRoute(out[k].name).pattern)
          /\ \A j, k \in 1..Len(out) :
                 j < k => StrLeq(out[j].pattern, out[k].pattern)

\* with a prefix given, the helper sorted two routes registered in
\* descending order of pattern, one of them without a leading "/"
C5_Witness ==
    /\ HelperWroteList
    /\ Truthy(CallPrefix)
    /\ Len(mapper) = 2
    /\ mapper[1].pattern = <<"a">>
    /\ mapper[2].pattern = <<"/">>
    /\ Len(stdout[1]) = 2
    /\ stdout[1][1].name = mapper[2].name

\* p is an initial segment of s
IsPrefixOf(p, s) == Len(p) <= Len(s) /\ \A i \in 1..Len(p) : s[i] = p[i]

EndsWithSlash(p) == Len(p) >= 1 /\ p[Len(p)] = "/"

(* C6: _strip_prefix returns the pattern unchanged without a prefix        *)
(* option, with an empty one, or when the pattern does not start with the  *)
(* prefix; otherwise it removes the first len(prefix) characters, or       *)
(* len(prefix) - 1 of them when the prefix ends with "/", whose "/" then   *)
(* begins the result.                                                      *)
C6_StripPrefix ==
    call.op = "_strip_prefix" =>
      LET pattern == call.argument
          out     == result.value
      IN  IF CallPrefix = NoneT \/ CallPrefix = <<>>
             \/ ~IsPrefixOf(CallPrefix, pattern)
          THEN out = pattern
          ELSE IF ~EndsWithSlash(CallPrefix)
          THEN out = Drop(pattern, Len(CallPrefix))
          ELSE /\ out = Drop(pattern, Len(CallPrefix) - 1)
               /\ BeginsWithSlash(out)

\* a two-character prefix ending in "/" was stripped down to its "/"
C6_Witness ==
    /\ call.op = "_strip_prefix"
    /\ Len(CallPrefix) = 2
    /\ EndsWithSlash(CallPrefix)
    /\ call.argument = CallPrefix
    /\ result.value = <<"/">>

\* the last run was a pyramidroutes directive carrying a prefix option
RoutesWithPrefixRan == call.op = "pyramidroutes" /\ "prefix" \in DOMAIN call.options

GroupInput == main(mapper, HelperPrefixArg(CallPrefix), None).out[1]

(* C8: group_by_modules partitions its input: the keys are exactly the     *)
(* module names occurring in the routes, no group is empty, every route    *)
(* is once in the group of its module, and each group keeps the input      *)
(* order of its routes.                                                    *)
C8_GroupsPartition ==
    HelperWroteGroups =>
      LET groups == stdout[1]
      IN  /\ \A g, h \in 1..Len(groups) :
                 groups[g].key = groups[h].key => g = h
          /\ {groups[g].key : g \in 1..Len(groups)}
               = {GroupInput[k].module : k \in 1..Len(GroupInput)}
          /\ \A g \in 1..Len(groups) :
                 /\ groups[g].routes # <<>>
                 /\ groups[g].routes
                      = SelectSeq(GroupInput,
                                  LAMBDA r : r.module = groups[g].key)

\* two routes of one module were grouped together
C8_WitnessOneGroup ==
    /\ HelperWroteGroups
    /\ Len(stdout[1]) = 1
    /\ Len(stdout[1][1].routes) = 2
=============================================================================
